---- MODULE Spec2Model ----
(***************************************************************************)
(* The text-to-training-example pipeline of word_language_model.ipynb:     *)
(* parse_text, clean_text, the sequence windowing loop, the Keras          *)
(* Tokenizer encoding, pad_sequences, the X / y split and the inverted     *)
(* index_word_lookup.  The notebook's cells run once, top to bottom; pc    *)
(* is the cell (or loop iteration) that runs next.                         *)
(*                                                                         *)
(* A Python str is modelled as the sequence of its characters, each a      *)
(* one-character string, so slicing, split, strip, replace, startswith and *)
(* endswith are computed character by character as Python computes them.   *)
(***************************************************************************)
EXTENDS Integers, Sequences, FiniteSets

VARIABLES pc, data, k, full_text, tokens, i, sequences, word_index,
          tokenized_sequences, max_sequence_len, input_sequences,
          vocab_size, X, y, seq_length, index_word_lookup

vars == <<pc, data, k, full_text, tokens, i, sequences, word_index,
          tokenized_sequences, max_sequence_len, input_sequences,
          vocab_size, X, y, seq_length, index_word_lookup>>

----------------------------------------------------------------------------
(* Characters and Python's str methods                                     *)

LowerSeq == <<"a","b","c","d","e","f","g","h","i","j","k","l","m",
              "n","o","p","q","r","s","t","u","v","w","x","y","z">>

UpperSeq == <<"A","B","C","D","E","F","G","H","I","J","K","L","M",
              "N","O","P","Q","R","S","T","U","V","W","X","Y","Z">>

Range(f) == {f[j] : j \in DOMAIN f}

\* The sequence f as an explicit tuple.
AsSeq(f) == <<>> \o f

\* Op applied to the value of v, which is computed once.
With(v, Op(_)) == CHOOSE r \in {Op(x) : x \in {v}} : TRUE

\* The characters str.isalpha accepts (the ASCII letters of the model).
Alpha == Range(LowerSeq) \cup Range(UpperSeq)

\* Python's whitespace, as str.split() and str.strip() see it.
WhiteSpace == {" ", "\n", "\t"}

\* string.punctuation (without the grave accent, which a TLA+ string cannot
\* hold; no input of the model contains it).
Punctuation == {"!", "\"", "#", "$", "%", "&", "'", "(", ")", "*", "+", ",",
                "-", ".", "/", ":", ";", "<", "=", ">", "?", "@", "[", "\\",
                "]", "^", "_", "{", "|", "}", "~"}

\* The default filters of Tokenizer() (again without the grave accent).
KerasFilters == {"!", "\"", "#", "$", "%", "&", "(", ")", "*", "+", ",", "-",
                 ".", "/", ":", ";", "<", "=", ">", "?", "@", "[", "\\", "]",
                 "^", "_", "{", "|", "}", "~", "\t", "\n"}

\* str.lower on one character.
LowerChar(c) ==
    IF \E j \in DOMAIN UpperSeq : UpperSeq[j] = c
    THEN LowerSeq[CHOOSE j \in DOMAIN UpperSeq : UpperSeq[j] = c]
    ELSE c

\* str.lower
Lower(s) == AsSeq([j \in 1..Len(s) |-> LowerChar(s[j])])

\* str.isalpha: non-empty and every character alphabetic.
IsAlpha(s) == Len(s) > 0 /\ \A j \in 1..Len(s) : s[j] \in Alpha

\* pat occurs in s starting at position p.
MatchAt(s, pat, p) ==
    /\ p + Len(pat) - 1 <= Len(s)
    /\ \A j \in 1..Len(pat) : s[p + j - 1] = pat[j]

\* pat in s
Contains(s, pat) == \E p \in 1..Len(s) : MatchAt(s, pat, p)

\* str.startswith / str.endswith
StartsWith(s, pat) == MatchAt(s, pat, 1)
EndsWith(s, pat) == Len(pat) <= Len(s) /\ MatchAt(s, pat, Len(s) - Len(pat) + 1)

\* str.replace(old, new): left to right, non-overlapping.
RECURSIVE ReplaceFrom(_, _, _, _)
ReplaceFrom(s, old, new, p) ==
    IF p > Len(s) THEN <<>>
    ELSE IF MatchAt(s, old, p)
         THEN new \o ReplaceFrom(s, old, new, p + Len(old))
         ELSE <<s[p]>> \o ReplaceFrom(s, old, new, p + 1)

Replace(s, old, new) == With(s, LAMBDA v : ReplaceFrom(v, old, new, 1))

\* str.split(sep): every part, the empty ones included.
RECURSIVE SplitFrom(_, _, _, _)
SplitFrom(s, sep, p, cur) ==
    IF p > Len(s) THEN <<cur>>
    ELSE IF MatchAt(s, sep, p)
         THEN <<cur>> \o SplitFrom(s, sep, p + Len(sep), <<>>)
         ELSE SplitFrom(s, sep, p + 1, Append(cur, s[p]))

SplitOn(s, sep) == With(s, LAMBDA v : SplitFrom(v, sep, 1, <<>>))

\* str.split(): split on runs of whitespace, no empty parts.
RECURSIVE SplitWsFrom(_, _, _)
SplitWsFrom(s, p, cur) ==
    LET done == IF cur = <<>> THEN <<>> ELSE <<cur>>
    IN  IF p > Len(s) THEN done
        ELSE IF s[p] \in WhiteSpace
             THEN done \o SplitWsFrom(s, p + 1, <<>>)
             ELSE SplitWsFrom(s, p + 1, Append(cur, s[p]))

SplitWs(s) == With(s, LAMBDA v : SplitWsFrom(v, 1, <<>>))

\* str.strip(): what lies between the first and the last character that
\* is not whitespace.
StripValue(v) ==
    SubSeq(v,
           CHOOSE j \in 1..(Len(v) + 1) :
               /\ j = Len(v) + 1 \/ v[j] \notin WhiteSpace
               /\ \A m \in 1..(j - 1) : v[m] \in WhiteSpace,
           CHOOSE j \in 0..Len(v) :
               /\ j = 0 \/ v[j] \notin WhiteSpace
               /\ \A m \in (j + 1)..Len(v) : v[m] \in WhiteSpace)

Strip(s) == With(s, StripValue)

\* sep.join(parts)
RECURSIVE Join(_, _)
Join(parts, sep) ==
    IF parts = <<>> THEN <<>>
    ELSE IF Len(parts) = 1 THEN parts[1]
    ELSE parts[1] \o sep \o Join(Tail(parts), sep)

\* The concatenation of a sequence of sequences.
RECURSIVE Concat(_)
Concat(ss) == IF ss = <<>> THEN <<>> ELSE ss[1] \o Concat(Tail(ss))

----------------------------------------------------------------------------
(* The helper cell: eos, parse_text, clean_text                            *)

\* End of sentence tag
eos == <<"<", "e", "o", "s", ">">>

\* One entry of parse_text's loop: drop newlines and apostrophes, put the
\* spaced tag in place of every period.
ParseEntry(text) ==
    Replace(Replace(Replace(text, <<"\n">>, <<>>), <<"'">>, <<>>),
            <<".">>, <<" ">> \o eos \o <<" ">>)

\* parse_text(data): the entries appended to one another, nothing between.
parse_text(d) == Concat([j \in 1..Len(d) |-> ParseEntry(d[j])])

\* w.translate(table): every punctuation character deleted.
Translate(w) == SelectSeq(w, LAMBDA c : c \notin Punctuation)

KeepToken(word) == IsAlpha(word) \/ Contains(word, eos)

\* tokens = [w.translate(table) if eos not in w else w for w in tokens]
StripPunctuation(split) ==
    AsSeq([j \in 1..Len(split) |->
             IF ~Contains(split[j], eos) THEN Translate(split[j])
             ELSE split[j]])

\* tokens = [word.lower() for word in tokens]
LowerAll(kept) == AsSeq([j \in 1..Len(kept) |-> Lower(kept[j])])

\* clean_text(doc)
clean_text(doc) ==
    With(SplitWs(doc), LAMBDA split :
        With(StripPunctuation(split), LAMBDA nopunct :
            With(SelectSeq(nopunct, KeepToken), LowerAll)))

----------------------------------------------------------------------------
(* The sequence windowing cell                                             *)

\* length = 10 + 1: 10 words as input, 1 as output
length == 10 + 1

\* seq = tokens[i-length:i]  (Python's 0-based half-open slice)
WindowAt(toks, idx) == SubSeq(toks, idx - length + 1, idx)

\* line = ' '.join(seq)
LineAt(toks, idx) == Join(WindowAt(toks, idx), <<" ">>)

\* line[:-4] and line[4:]
DropLast4(line) == SubSeq(line, 1, Len(line) - 4)
DropFirst4(line) == SubSeq(line, 4 + 1, Len(line))

\* front, back = line.split(eos) raises ValueError unless the split has
\* exactly two parts; the bare except turns that into `continue`.
SplitFails(line) == Len(SplitOn(line, eos)) # 2

\* LongerSide with the comparison turned into >=: a tie keeps the front.
LongerSideTieFront(line) ==
    LET front == SplitOn(line, eos)[1]
        back == SplitOn(line, eos)[2]
    IN  IF Len(front) >= Len(back) THEN Strip(front) ELSE Strip(back)

\* The interior branch, for a line whose split has two parts.
LongerSide(line) ==
    LET front == SplitOn(line, eos)[1]
        back == SplitOn(line, eos)[2]
    IN  IF Len(front) > Len(back) THEN Strip(front) ELSE Strip(back)

\* The body of the loop for one line: whether the line reaches
\* sequences.append, and the line appended.
TrimLine(line0) == With(line0, LAMBDA line :
    IF ~Contains(line, eos) THEN [stored |-> TRUE, line |-> line]
    ELSE IF EndsWith(line, eos)
         THEN [stored |-> TRUE, line |-> Strip(DropLast4(line))]
    ELSE IF StartsWith(line, eos)
         THEN [stored |-> TRUE, line |-> Strip(DropFirst4(line))]
    ELSE IF SplitFails(line) THEN [stored |-> FALSE, line |-> line]
    ELSE [stored |-> TRUE, line |-> LongerSide(line)])

----------------------------------------------------------------------------
(* The encoding cell: Tokenizer(), fit_on_texts, texts_to_sequences,       *)
(* pad_sequences, with the arguments the notebook passes and Keras's       *)
(* defaults for the rest (lower=True, split=' ', num_words=None,           *)
(* oov_token=None, truncating='pre', value=0).                             *)

\* text_to_word_sequence: lower-case, every filtered character replaced by
\* the split character, split on it, empty parts dropped.
TextToWordSequence(text) ==
    LET filt == AsSeq([j \in 1..Len(text) |->
                         IF LowerChar(text[j]) \in KerasFilters THEN " "
                         ELSE LowerChar(text[j])])
    IN  SelectSeq(SplitOn(filt, <<" ">>), LAMBDA w : w # <<>>)

\* sorted_voc of fit_on_texts: the words of all the texts by descending
\* count, words of equal count in order of first appearance (word_counts
\* is an OrderedDict and the sort is stable).
SortedVoc(all) ==
    LET words == Range(all)
        count(w) == Cardinality({p \in 1..Len(all) : all[p] = w})
        first(w) == CHOOSE p \in 1..Len(all) :
                       all[p] = w /\ \A q \in 1..(p - 1) : all[q] # w
        before(v, w) == \/ count(v) > count(w)
                        \/ count(v) = count(w) /\ first(v) < first(w)
    IN  AsSeq([r \in 1..Cardinality(words) |->
                 CHOOSE w \in words :
                     Cardinality({v \in words : before(v, w)}) = r - 1])

\* dict(zip(sorted_voc, range(1, len(sorted_voc) + 1)))
IndexOf(sorted_voc) ==
    [w \in Range(sorted_voc) |->
        CHOOSE r \in 1..Len(sorted_voc) : sorted_voc[r] = w]

\* tokenizer.fit_on_texts(texts) read back as tokenizer.word_index
FitOnTexts(texts) ==
    With(Concat([j \in 1..Len(texts) |-> TextToWordSequence(texts[j])]),
         LAMBDA all : With(SortedVoc(all), IndexOf))

\* tokenizer.texts_to_sequences(texts): words without an index are dropped.
TextsToSequences(wi, texts) ==
    AsSeq([j \in 1..Len(texts) |->
        With(SelectSeq(TextToWordSequence(texts[j]),
                       LAMBDA w : w \in DOMAIN wi),
             LAMBDA known : AsSeq([p \in 1..Len(known) |-> wi[known[p]]]))])

\* max([len(x) for x in tokenized_sequences]), for a non-empty list
MaxLen(seqs) ==
    CHOOSE m \in {Len(seqs[j]) : j \in 1..Len(seqs)} :
        \A j \in 1..Len(seqs) : Len(seqs[j]) <= m

\* PadSequences that truncates but never pads.
PadSequencesNoPad(seqs, maxlen) ==
    AsSeq([j \in 1..Len(seqs) |->
             IF Len(seqs[j]) > maxlen
             THEN SubSeq(seqs[j], Len(seqs[j]) - maxlen + 1, Len(seqs[j]))
             ELSE seqs[j]])

\* pad_sequences(seqs, maxlen=maxlen, padding='pre')
PadSequences(seqs, maxlen) ==
    AsSeq([j \in 1..Len(seqs) |->
        LET s == seqs[j]
            trunc == IF Len(s) > maxlen
                     THEN SubSeq(s, Len(s) - maxlen + 1, Len(s)) ELSE s
        IN  [p \in 1..(maxlen - Len(trunc)) |-> 0] \o trunc])

\* to_categorical(ids, num_classes): one one-hot row per id
ToCategorical(ids, num_classes) ==
    AsSeq([j \in 1..Len(ids) |->
        [c \in 0..(num_classes - 1) |-> IF c = ids[j] THEN 1 ELSE 0]])

\* dict([[v,k] for k,v in tokenizer.word_index.items()])
InvertIndex(wi) ==
    [v \in Range(wi) |-> CHOOSE w \in DOMAIN wi : wi[w] = v]

----------------------------------------------------------------------------
(* The text entries a run may load into data                               *)

\* Text entries are at most MaxPieces pieces long in all.
MaxPieces == 3

\* Token streams are at most MaxTokens tokens long.
MaxTokens == 13

\* Token streams hold at most MaxMarkers sentence ends.
MaxMarkers == 2

Pieces == {<<"a">>, <<"B">>, <<".">>, <<" ">>, <<",">>, <<"'">>, <<"\n">>, eos}

\* One or two entries cut from one sequence of pieces.
TextInputs ==
    UNION {{IF c = 0 THEN <<Concat(ps)>>
            ELSE <<Concat(SubSeq(ps, 1, c)), Concat(SubSeq(ps, c + 1, n))>>
              : ps \in [1..n -> Pieces], c \in 0..n} : n \in 0..MaxPieces}

\* The words of the streams, used in rotation.
Words == << <<"a">>, <<"b">>, <<"c">>, <<"d">> >>

WordAt(p) == Words[((p - 1) % Len(Words)) + 1]

\* One entry of n words and sentence ends: "." where a sentence ends, the
\* words in rotation elsewhere, the word at position l written twice over
\* (a longer word).  Long enough for the windowing loop to run.
StreamEntry(n, M, l) ==
    Join([p \in 1..n |-> IF p \in M THEN <<".">>
                         ELSE IF p = l THEN WordAt(p) \o WordAt(p)
                         ELSE WordAt(p)], <<" ">>)

StreamInputs ==
    {<<StreamEntry(n, M, l)>> :
        n \in (length + 1)..MaxTokens,
        M \in {S \in SUBSET (1..MaxTokens) : Cardinality(S) <= MaxMarkers},
        l \in 0..MaxTokens}

\* A run of commas written against a literal tag: longer than ten
\* one-letter words and the spaces between them.
GluedToken == [j \in 1..(2 * (length - 1) + 1) |-> ","] \o eos

\* One entry whose g-th word is the glued token.
GluedInputs ==
    {<<Join([p \in 1..n |-> IF p = g THEN GluedToken ELSE WordAt(p)], <<" ">>)>> :
        n \in (length + 1)..MaxTokens, g \in 1..MaxTokens}

\* "Great food. Loved it" and "Terrible service."
ExampleRecords ==
    << <<"G","r","e","a","t"," ","f","o","o","d","."," ",
         "L","o","v","e","d"," ","i","t">>,
       <<"T","e","r","r","i","b","l","e"," ",
         "s","e","r","v","i","c","e",".">> >>

Inputs == TextInputs \cup StreamInputs \cup GluedInputs \cup {ExampleRecords}

----------------------------------------------------------------------------
(* The run                                                                 *)

Init ==
    /\ pc = "load"
    /\ data = <<>>
    /\ k = 1
    /\ full_text = <<>>
    /\ tokens = <<>>
    /\ i = length
    /\ sequences = <<>>
    /\ word_index = <<>>
    /\ tokenized_sequences = <<>>
    /\ max_sequence_len = 0
    /\ input_sequences = <<>>
    /\ vocab_size = 0
    /\ X = <<>>
    /\ y = <<>>
    /\ seq_length = 0
    /\ index_word_lookup = <<>>

\* data = tc.SFrame(...)['text'].sample(.01): the entries of the sample
LoadData ==
    /\ pc = "load"
    /\ data' \in Inputs
    /\ pc' = "parse"
    /\ UNCHANGED <<k, full_text, tokens, i, sequences, word_index,
                   tokenized_sequences, max_sequence_len, input_sequences,
                   vocab_size, X, y, seq_length, index_word_lookup>>

\* parse_text: one pass of `for text in data`
ParseStep ==
    /\ pc = "parse"
    /\ k <= Len(data)
    /\ full_text' = full_text \o ParseEntry(data[k])
    /\ k' = k + 1
    /\ UNCHANGED <<pc, data, tokens, i, sequences, word_index,
                   tokenized_sequences, max_sequence_len, input_sequences,
                   vocab_size, X, y, seq_length, index_word_lookup>>

\* parse_text returns: full_text = parse_text(data).  (del(data) frees the
\* name only; the entries stay the run's input and the model keeps them.)
ParseReturn ==
    /\ pc = "parse"
    /\ k > Len(data)
    /\ pc' = "clean"
    /\ UNCHANGED <<data, k, full_text, tokens, i, sequences, word_index,
                   tokenized_sequences, max_sequence_len, input_sequences,
                   vocab_size, X, y, seq_length, index_word_lookup>>

\* tokens = clean_text(doc=full_text)
CleanText ==
    /\ pc = "clean"
    /\ tokens' = clean_text(full_text)
    /\ pc' = "window"
    /\ UNCHANGED <<data, k, full_text, i, sequences, word_index,
                   tokenized_sequences, max_sequence_len, input_sequences,
                   vocab_size, X, y, seq_length, index_word_lookup>>

\* WindowStep with `break` where the code has `continue`: a failed split
\* ends the loop.
WindowStepBreak ==
    /\ pc = "window"
    /\ i < Len(tokens)
    /\ \E t \in {TrimLine(LineAt(tokens, i))} :
           /\ sequences' = IF t.stored THEN Append(sequences, t.line)
                           ELSE sequences
           /\ pc' = IF t.stored THEN pc ELSE "encode"
    /\ i' = i + 1
    /\ UNCHANGED <<data, k, full_text, tokens, word_index,
                   tokenized_sequences, max_sequence_len, input_sequences,
                   vocab_size, X, y, seq_length, index_word_lookup>>

\* One pass of `for i in range(length, len(tokens))`
WindowStep ==
    /\ pc = "window"
    /\ i < Len(tokens)
    /\ \E t \in {TrimLine(LineAt(tokens, i))} :
           sequences' = IF t.stored THEN Append(sequences, t.line)
                        ELSE sequences
    /\ i' = i + 1
    /\ UNCHANGED <<pc, data, k, full_text, tokens, word_index,
                   tokenized_sequences, max_sequence_len, input_sequences,
                   vocab_size, X, y, seq_length, index_word_lookup>>

\* The range is exhausted.
WindowEnd ==
    /\ pc = "window"
    /\ i >= Len(tokens)
    /\ pc' = "encode"
    /\ UNCHANGED <<data, k, full_text, tokens, i, sequences, word_index,
                   tokenized_sequences, max_sequence_len, input_sequences,
                   vocab_size, X, y, seq_length, index_word_lookup>>

\* The encoding cell.  max() of an empty list raises ValueError, which
\* nothing catches: the run ends there.
Encode ==
    /\ pc = "encode"
    /\ word_index' = FitOnTexts(sequences)
    /\ tokenized_sequences' = TextsToSequences(word_index', sequences)
    /\ \/ /\ sequences = <<>>
          /\ pc' = "aborted"
          /\ UNCHANGED <<max_sequence_len, input_sequences>>
       \/ /\ sequences # <<>>
          /\ max_sequence_len' = MaxLen(tokenized_sequences')
          /\ input_sequences' =
                 PadSequences(tokenized_sequences', max_sequence_len')
          /\ pc' = "vocab"
    /\ UNCHANGED <<data, k, full_text, tokens, i, sequences, vocab_size,
                   X, y, seq_length, index_word_lookup>>

\* vocab_size = len(tokenizer.word_index) + 1
VocabSize ==
    /\ pc = "vocab"
    /\ vocab_size' = Cardinality(DOMAIN word_index) + 1
    /\ pc' = "split"
    /\ UNCHANGED <<data, k, full_text, tokens, i, sequences, word_index,
                   tokenized_sequences, max_sequence_len, input_sequences,
                   X, y, seq_length, index_word_lookup>>

\* X, y = input_sequences[:,:-1], input_sequences[:,-1], then to_categorical
\* and seq_length = X.shape[1].  Column -1 of an array with no columns
\* raises IndexError, which nothing catches.
SplitXY ==
    /\ pc = "split"
    /\ \/ /\ max_sequence_len = 0
          /\ pc' = "aborted"
          /\ UNCHANGED <<X, y, seq_length>>
       \/ /\ max_sequence_len > 0
          /\ X' = AsSeq([r \in 1..Len(input_sequences) |->
                     SubSeq(input_sequences[r], 1, max_sequence_len - 1)])
          /\ y' = ToCategorical(
                     [r \in 1..Len(input_sequences) |->
                        input_sequences[r][max_sequence_len]], vocab_size)
          /\ seq_length' = max_sequence_len - 1
          /\ pc' = "invert"
    /\ UNCHANGED <<data, k, full_text, tokens, i, sequences, word_index,
                   tokenized_sequences, max_sequence_len, input_sequences,
                   vocab_size, index_word_lookup>>

\* index_word_lookup = dict([[v,k] for k,v in tokenizer.word_index.items()])
Invert ==
    /\ pc = "invert"
    /\ index_word_lookup' = InvertIndex(word_index)
    /\ pc' = "done"
    /\ UNCHANGED <<data, k, full_text, tokens, i, sequences, word_index,
                   tokenized_sequences, max_sequence_len, input_sequences,
                   vocab_size, X, y, seq_length>>

\* The cells after the load, in the order they run.
Run ==
    \/ ParseStep
    \/ ParseReturn
    \/ CleanText
    \/ WindowStep
    \/ WindowEnd
    \/ Encode
    \/ VocabSize
    \/ SplitXY
    \/ Invert

Next == LoadData \/ Run

Spec == Init /\ [][Next]_vars

\* The windowing cell, once started, goes on running: a pass that is due is
\* made, and the loop is left when the range is exhausted.
FairSpec == Spec /\ WF_vars(WindowStep \/ WindowEnd)

----------------------------------------------------------------------------
(* Properties                                                              *)

\* The window the loop takes at position i, and whether a pass is due.
Window == WindowAt(tokens, i)
PassDue == pc = "window" /\ i < Len(tokens)

\* The pass for position i - 1 has run.
PassRan == pc \in {"window", "encode"} /\ i > length
LastWindow == WindowAt(tokens, i - 1)
LastStored == sequences[Len(sequences)]

\* The positions of a window that hold the marker token.
MarkerPositions(W) == {p \in 1..Len(W) : W[p] = eos}

\* The line's own space-separated tokens.
LineTokens(line) == SplitWs(line)

AfterEncode == pc \in {"vocab", "split", "invert", "done"}
AfterSplit == pc \in {"invert", "done"}

\* C1: whenever the loop stores a line for a window that holds the marker
\* token at least once, the stored line does not contain <eos>.
C1_StoredLineHasNoMarker ==
    [][(PassDue /\ MarkerPositions(Window) # {}
               /\ Len(sequences') = Len(sequences) + 1)
          => ~Contains(sequences'[Len(sequences')], eos)]_vars

\* The one marker of a window is interior and no other token holds the tag.
OneInteriorMarker(W) ==
    \E p \in 2..(length - 1) :
        /\ W[p] = eos
        /\ \A q \in (1..length) \ {p} : ~Contains(W[q], eos)

\* The two sides of such a window as text, and the side the claim keeps.
FrontText(W) ==
    Join(SubSeq(W, 1, (CHOOSE p \in MarkerPositions(W) : TRUE) - 1), <<" ">>)
BackText(W) ==
    Join(SubSeq(W, (CHOOSE p \in MarkerPositions(W) : TRUE) + 1, length),
         <<" ">>)
GreaterSide(W) ==
    IF Len(FrontText(W)) > Len(BackText(W)) THEN FrontText(W) ELSE BackText(W)

\* C2: for a window whose one marker is neither its first nor its last
\* token, the pass stores the text of the side with more characters, and
\* the side after the marker when both have as many.
C2_LongerSideKept ==
    [][(PassDue /\ OneInteriorMarker(Window))
          => sequences' = Append(sequences, GreaterSide(Window))]_vars

\* A tie between two different sides was settled for the back.
C2_Witness ==
    /\ PassRan
    /\ OneInteriorMarker(LastWindow)
    /\ Len(FrontText(LastWindow)) = Len(BackText(LastWindow))
    /\ FrontText(LastWindow) # BackText(LastWindow)
    /\ sequences # <<>>
    /\ LastStored = BackText(LastWindow)

ExampleTokens ==
    << <<"g","r","e","a","t">>, <<"f","o","o","d">>, eos,
       <<"l","o","v","e","d">>, <<"i","t">>,
       <<"t","e","r","r","i","b","l","e">>,
       <<"s","e","r","v","i","c","e">>, eos >>

\* C4: the tokens are the in-order concatenation of the tokens of each
\* entry normalized alone, and the two example entries give the example
\* tokens.
C4_TokensPerRecord ==
    pc \notin {"load", "parse", "clean"} =>
        /\ tokens = Concat([j \in 1..Len(data) |->
                              clean_text(parse_text(<<data[j]>>))])
        /\ data = ExampleRecords => tokens = ExampleTokens

\* The ids of a row decoded through index_word_lookup.
Decode(ids) == [p \in 1..Len(ids) |-> index_word_lookup[ids[p]]]

\* C5: every stored line, encoded and decoded through index_word_lookup,
\* gives back the line's own space-separated tokens.
C5_RoundTrip ==
    pc = "done" =>
        \A r \in 1..Len(sequences) :
            Decode(tokenized_sequences[r]) = LineTokens(sequences[r])

\* The distinct tokens of the stored lines.
SeenTokens == UNION {Range(LineTokens(sequences[r])) : r \in 1..Len(sequences)}

\* C6: word_index maps the n distinct tokens of the stored lines one to one
\* onto 1..n, vocab_size = n + 1, and index_word_lookup is its inverse.
C6_VocabularyBijection ==
    pc = "done" =>
        /\ DOMAIN word_index = SeenTokens
        /\ Range(word_index) = 1..Cardinality(SeenTokens)
        /\ \A v, w \in DOMAIN word_index :
               word_index[v] = word_index[w] => v = w
        /\ vocab_size = Cardinality(SeenTokens) + 1
        /\ DOMAIN index_word_lookup = Range(word_index)
        /\ \A w \in DOMAIN word_index : index_word_lookup[word_index[w]] = w

\* The window holds two or more markers, none in its first or last token.
SplitMustFail(W) ==
    /\ Cardinality(MarkerPositions(W)) >= 2
    /\ ~Contains(W[1], eos)
    /\ ~Contains(W[length], eos)

\* C7: a pass whose split fails leaves sequences as it was and moves to the
\* next position; every pass moves one position on, never past the end of
\* the range; the loop is left only when the range is exhausted; and the
\* loop, once entered, is left in the end.
C7_FailedSplitSkipsOneWindow ==
    /\ [][/\ (PassDue /\ SplitMustFail(Window))
               => sequences' = sequences /\ i' = i + 1 /\ pc' = "window"
          /\ (pc = "window" /\ pc' = "window")
               => i' = i + 1 /\ i' <= Len(tokens)
          /\ (pc = "window" /\ pc' # "window")
               => i >= Len(tokens) /\ pc' = "encode"]_vars
    /\ (pc = "window") ~> (pc = "encode")

\* A window was skipped and the window after it was stored.
C7_Witness ==
    /\ pc \in {"window", "encode"}
    /\ i > length + 1
    /\ SplitMustFail(WindowAt(tokens, i - 2))
    /\ ~SplitMustFail(LastWindow)
    /\ sequences # <<>>
    /\ LastStored = TrimLine(LineAt(tokens, i - 1)).line

\* C8: every token clean_text returns is a non-empty lower-case alphabetic
\* string or exactly the marker.
C8_TokensAreWordsOrMarker ==
    pc \notin {"load", "parse", "clean"} =>
        \A p \in 1..Len(tokens) :
            \/ tokens[p] = eos
            \/ IsAlpha(tokens[p]) /\ Lower(tokens[p]) = tokens[p]

\* The passes the loop has made: i starts at length and goes up by one.
WindowsTaken == i - length

\* C9: a stream of n >= 11 tokens has all of its n - 10 slices taken, the
\* one ending at the final token included.
C9_EverySliceTaken ==
    (pc = "encode" /\ Len(tokens) >= length)
        => WindowsTaken = Len(tokens) - (length - 1)

\* C10: every stored line encodes to at least one id, the last column of
\* every padded row is an id of 1..vocab_size-1, and zeros are a prefix only.
C10_TargetIsNeverPadding ==
    AfterSplit =>
        \A r \in 1..Len(input_sequences) :
            /\ Len(tokenized_sequences[r]) >= 1
            /\ input_sequences[r][max_sequence_len] \in 1..(vocab_size - 1)
            /\ \A p \in 1..(max_sequence_len - 1) :
                   input_sequences[r][p] # 0 => input_sequences[r][p + 1] # 0

====
